---- MODULE Spec2Model ----
(***************************************************************************)
(* Model of the general-conference citation pipeline:                      *)
(*   download.py  - the fetch / parse / count / deduplicate / write run    *)
(*   dashboard.py - title cleanup, verse adjustment, rolling average       *)
(* Text is modelled as sequences of one-character strings, so that the     *)
(* splitting, searching, slicing and ordering of the code are computed.    *)
(***************************************************************************)
EXTENDS Integers, Sequences, FiniteSets, TLC

\* ------------------------------------------------------------------ bounds
MaxRuns == 2         \* successive runs of main over the same directories
MaxFailures == 1     \* failed fetches (network or file system) in one behaviour
MaxChunks == 3       \* pieces a talk text handed to the counter is made of
MaxTitleLen == 4     \* characters of a title handed to remove_speaker_from_title
MaxSpeakerLen == 2   \* characters of a speaker name
MaxRows == 3         \* rows of the table handed to the rolling average
MaxCalls == 3        \* calls of save_talk_html on one talk cache

\* ------------------------------------------------------- program constants
YEAR_RANGE_START == 1971
REQUEST_DELAY_SECONDS == 2

BASE_URL == <<"h","t","t","p","s",":","/","/","w","w","w",".","c","h","u","r","c","h","o","f","j","e","s","u","s","c","h","r","i","s","t",".","o","r","g","/","s","t","u","d","y","/","g","e","n","e","r","a","l","-","c","o","n","f","e","r","e","n","c","e","/">>
SITE_ROOT == <<"h","t","t","p","s",":","/","/","w","w","w",".","c","h","u","r","c","h","o","f","j","e","s","u","s","c","h","r","i","s","t",".","o","r","g">>
MONTHS_TO_SCRAPE == << <<"0","4">>, <<"1","0">> >>
LANG_QUERY == <<"?","l","a","n","g","=","e","n","g">>
LANG_ENG == <<"l","a","n","g","=","e","n","g">>
HTML_EXT == <<".","h","t","m","l">>
LANG_EXT == <<"_","l","a","n","g","=","e","n","g",".","h","t","m","l">>
HTTP == <<"h","t","t","p">>
OUT_PREFIX == <<"c","o","n","f","e","r","e","n","c","e","_","t","a","l","k","s","_">>
OUT_EXT == <<".","p","a","r","q","u","e","t">>

\* Python's None and the empty string: both are falsy, and the code only ever
\* tests them for truth (`if filepath`, `if not specific_conference`).
None == << >>

\* ----------------------------------------------------------- text helpers
\* ord(c) of the characters that occur in the model's texts
CodePoint ==
    " " :> 32 @@ "-" :> 45 @@ "." :> 46 @@ "/" :> 47 @@ "0" :> 48 @@ "1" :> 49 @@ "2" :> 50 @@ "3" :> 51 @@ "4" :> 52 @@ "5" :> 53 @@ "6" :> 54 @@ "7" :> 55 @@ "8" :> 56 @@ "9" :> 57 @@ ":" :> 58 @@ "=" :> 61 @@ "?" :> 63 @@ "A" :> 65 @@ "B" :> 66 @@ "C" :> 67 @@ "D" :> 68 @@ "E" :> 69 @@ "F" :> 70 @@ "G" :> 71 @@ "H" :> 72 @@ "I" :> 73 @@ "J" :> 74 @@ "K" :> 75 @@ "L" :> 76 @@ "M" :> 77 @@ "N" :> 78 @@ "O" :> 79 @@ "P" :> 80 @@ "Q" :> 81 @@ "R" :> 82 @@ "S" :> 83 @@ "T" :> 84 @@ "U" :> 85 @@ "V" :> 86 @@ "W" :> 87 @@ "X" :> 88 @@ "Y" :> 89 @@ "Z" :> 90 @@ "_" :> 95 @@ "a" :> 97 @@ "b" :> 98 @@ "c" :> 99 @@ "d" :> 100 @@ "e" :> 101 @@ "f" :> 102 @@ "g" :> 103 @@ "h" :> 104 @@ "i" :> 105 @@ "j" :> 106 @@ "k" :> 107 @@ "l" :> 108 @@ "m" :> 109 @@ "n" :> 110 @@ "o" :> 111 @@ "p" :> 112 @@ "q" :> 113 @@ "r" :> 114 @@ "s" :> 115 @@ "t" :> 116 @@ "u" :> 117 @@ "v" :> 118 @@ "w" :> 119 @@ "x" :> 120 @@ "y" :> 121 @@ "z" :> 122

Ord(c) == CodePoint[c]

\* Python's str < str: by code point, a proper prefix being smaller.
RECURSIVE StrLess(_, _)
StrLess(a, b) ==
    IF b = << >> THEN FALSE
    ELSE IF a = << >> THEN TRUE
    ELSE IF Head(a) = Head(b) THEN StrLess(Tail(a), Tail(b))
    ELSE Ord(Head(a)) < Ord(Head(b))

StartsWith(s, p) == Len(p) <= Len(s) /\ SubSeq(s, 1, Len(p)) = p

EndsWith(s, p) == Len(p) <= Len(s) /\ SubSeq(s, Len(s) - Len(p) + 1, Len(s)) = p

\* `sub in s`
Contains(s, sub) == \E k \in 1..(Len(s) - Len(sub) + 1) : SubSeq(s, k, k + Len(sub) - 1) = sub

\* s.split(sep) for a one-character separator: the pieces, empty ones included.
\* k scans the text, start is where the current piece began.
RECURSIVE SplitFrom(_, _, _, _)
SplitFrom(s, sep, k, start) ==
    IF k > Len(s) THEN << SubSeq(s, start, Len(s)) >>
    ELSE IF s[k] = sep THEN << SubSeq(s, start, k - 1) >> \o SplitFrom(s, sep, k + 1, k + 1)
    ELSE SplitFrom(s, sep, k + 1, start)

Split(s, sep) == SplitFrom(s, sep, 1, 1)

Digits == <<"0","1","2","3","4","5","6","7","8","9">>

\* f"{year}" for a non-negative integer
RECURSIVE IntToStr(_)
IntToStr(n) == IF n < 10 THEN << Digits[n + 1] >> ELSE Append(IntToStr(n \div 10), Digits[(n % 10) + 1])

\* seq[-k] of Python, for 1 <= k <= Len(seq)
FromEnd(seq, k) == seq[Len(seq) - k + 1]

\* All sequences over S of length at most n
SeqsUpTo(S, n) == UNION { [1..k -> S] : k \in 0..n }

\* The orders in which a finite set can be enumerated
RECURSIVE Orders(_)
Orders(S) == IF S = { } THEN { << >> } ELSE UNION { { << x >> \o rest : rest \in Orders(S \ { x }) } : x \in S }

\* ------------------------------------------------------------ environment
\* The remote site. A list page is modelled by the hrefs of its well-formed
\* items (items without title or speaker yield no record); a talk page by its text.
Slugs == { <<"a">> }

TalkHrefs(year, month) ==
    LET stem(sl) == <<"/","s","t","u","d","y","/","g","e","n","e","r","a","l","-","c","o","n","f","e","r","e","n","c","e","/">> \o year \o <<"/">> \o month \o <<"/">> \o sl
    IN  { stem(sl) : sl \in Slugs } \cup { stem(sl) \o LANG_QUERY : sl \in Slugs }

\* A list page names each talk URL at most once, in any order
SiteListPages(year, month) ==
    { page \in SeqsUpTo(TalkHrefs(year, month), Cardinality(TalkHrefs(year, month))) :
        \A a, b \in 1..Len(page) : page[a] = page[b] => a = b }

\* The site is static: the text of a talk page is fixed by its URL. The page
\* served for ?lang=eng differs from the one served without it.
SiteTalkPages(url) ==
    IF Contains(url, LANG_ENG)
    THEN { <<"S","c","r","i","p","t","u","r","e","s","/","O","T","/","s","c","r","i","p","t","u","r","e","s","/","o","t","/">> }
    ELSE { <<"s","c","r","i","p","t","u","r","e","s","/","b","o","f","m","/">> }

\* What open(path, 'w') leaves behind when the write that follows it fails
TRUNCATED == << >>

EmptyDir == [exists |-> FALSE, files |-> << >>]

\* os.path.exists(os.path.join(folder, name))
Exists(folder, name) == name \in DOMAIN folder.files

\* os.makedirs if absent, then open(path, 'w') and write
WriteFile(folder, name, content) == [exists |-> TRUE, files |-> (name :> content) @@ folder.files]

\* --------------------------------------------------------------- fetcher
\* One call of a fetch function: the folder it leaves, what it returns, whether
\* it made an HTTP GET, and whether an exception left the function.
Result(folder, path, downloaded, net, kind) ==
    [folder |-> folder, path |-> path, downloaded |-> downloaded, net |-> net,
     kind |-> kind, raised |-> FALSE]

\* The try body after the cache check, common to both fetch functions:
\* requests.get + raise_for_status, then makedirs / open / write.
\* Variant: the exception of a failed request or write leaves the function
DownloadUncaught(folder, filepath, bodies) ==
    { Result(WriteFile(folder, filepath, body), filepath, TRUE, TRUE, "saved") : body \in bodies }
    \cup { [Result(folder, None, FALSE, TRUE, kind) EXCEPT !.raised = TRUE] : kind \in {"request_error", "io_error"} }

Download(folder, filepath, bodies) ==
    { Result(WriteFile(folder, filepath, body), filepath, TRUE, TRUE, "saved") : body \in bodies }
    \cup { Result(folder, None, FALSE, TRUE, "request_error") }
    \cup { Result(folder, None, FALSE, TRUE, "io_error"),
           Result(WriteFile(folder, filepath, TRUNCATED), None, FALSE, TRUE, "io_error") }

ListFilename(url) ==
    LET parts == Split(url, "/")
    IN  FromEnd(parts, 2) \o <<"-">> \o Split(FromEnd(parts, 1), "?")[1] \o HTML_EXT

save_conference_list_html(url, folder, bodies) ==
    LET filepath == ListFilename(url)
    IN  IF Exists(folder, filepath)
        THEN { Result(folder, filepath, FALSE, FALSE, "cached") }
        ELSE Download(folder, filepath, bodies)

TalkBaseFilename(url) ==
    LET parts == Split(url, "/")
    IN  FromEnd(parts, 3) \o <<"-">> \o FromEnd(parts, 2) \o <<"-">> \o Split(FromEnd(parts, 1), "?")[1]

\* Variant: only the file of the URL's own form counts as cached
save_talk_html_own_form(url, folder, bodies) ==
    LET base_filename == TalkBaseFilename(url)
        filepath == base_filename \o (IF Contains(url, LANG_ENG) THEN LANG_EXT ELSE HTML_EXT)
    IN  IF Exists(folder, filepath)
        THEN { Result(folder, filepath, FALSE, FALSE, "cached") }
        ELSE Download(folder, filepath, bodies)

\* Variant: only the plain file counts as cached
save_talk_html_plain_check(url, folder, bodies) ==
    LET base_filename == TalkBaseFilename(url)
        filepath_plain == base_filename \o HTML_EXT
        filepath_lang == base_filename \o LANG_EXT
    IN  IF Exists(folder, filepath_plain)
        THEN { Result(folder, filepath_plain, FALSE, FALSE, "cached") }
        ELSE Download(folder, IF Contains(url, LANG_ENG) THEN filepath_lang ELSE filepath_plain, bodies)

save_talk_html(url, folder, bodies) ==
    LET base_filename == TalkBaseFilename(url)
        filepath_plain == base_filename \o HTML_EXT
        filepath_lang == base_filename \o LANG_EXT
    IN  IF Exists(folder, filepath_plain) \/ Exists(folder, filepath_lang)
        THEN { Result(folder, IF Exists(folder, filepath_lang) THEN filepath_lang ELSE filepath_plain,
                      FALSE, FALSE, "cached") }
        ELSE Download(folder, IF Contains(url, LANG_ENG) THEN filepath_lang ELSE filepath_plain, bodies)

\* ------------------------------------------------------ citation counting
\* The characters that str.lower() changes, among those of the model's texts
LowerCase ==
    "A" :> "a" @@ "B" :> "b" @@ "C" :> "c" @@ "D" :> "d" @@ "E" :> "e" @@ "F" :> "f" @@ "G" :> "g" @@ "H" :> "h" @@ "I" :> "i" @@ "J" :> "j" @@ "K" :> "k" @@ "L" :> "l" @@ "M" :> "m" @@ "N" :> "n" @@ "O" :> "o" @@ "P" :> "p" @@ "Q" :> "q" @@ "R" :> "r" @@ "S" :> "s" @@ "T" :> "t" @@ "U" :> "u" @@ "V" :> "v" @@ "W" :> "w" @@ "X" :> "x" @@ "Y" :> "y" @@ "Z" :> "z"

LowerChar(c) == IF c \in DOMAIN LowerCase THEN LowerCase[c] ELSE c

\* Variant: the text is searched as it is
LowerNot(s) == s

\* str.lower()
Lower(s) == [k \in 1..Len(s) |-> LowerChar(s[k])]

\* str.count(sub): occurrences found scanning left to right, each search
\* resuming after the end of the previous match
RECURSIVE CountFrom(_, _, _)
CountFrom(s, sub, k) ==
    IF k + Len(sub) - 1 > Len(s) THEN 0
    ELSE IF s[k] = sub[1] /\ SubSeq(s, k, k + Len(sub) - 1) = sub THEN 1 + CountFrom(s, sub, k + Len(sub))
    ELSE CountFrom(s, sub, k + 1)

StrCount(s, sub) == CountFrom(s, sub, 1)

search_strings_map ==
    [bom |-> <<"s","c","r","i","p","t","u","r","e","s","/","b","o","f","m","/">>,
     dc  |-> <<"s","c","r","i","p","t","u","r","e","s","/","d","c","-","t","e","s","t","a","m","e","n","t","/","d","c","/">>,
     pgp |-> <<"s","c","r","i","p","t","u","r","e","s","/","p","g","p","/">>,
     nt  |-> <<"s","c","r","i","p","t","u","r","e","s","/","n","t","/">>,
     ot  |-> <<"s","c","r","i","p","t","u","r","e","s","/","o","t","/">>]

ZeroCounts == [bom |-> 0, dc |-> 0, pgp |-> 0, nt |-> 0, ot |-> 0]

\* The texts of the model hold no markup, so str(soup) is the text itself.
count_scripture_references_from_file(filepath, folder) ==
    IF filepath = None \/ ~Exists(folder, filepath) THEN ZeroCounts
    ELSE LET html_as_text == Lower(folder.files[filepath])
         IN  [key \in DOMAIN search_strings_map |-> StrCount(html_as_text, Lower(search_strings_map[key]))]

\* -------------------------------------------------------- list extraction
\* The records of one cached list page, in page order
RowsOfFile(filename, hrefs) ==
    [k \in 1..Len(hrefs) |->
        [Year |-> Split(filename, "-")[1],
         Month |-> SubSeq(Split(filename, "-")[2], 1, 2),
         URL_Suffix |-> hrefs[k],
         Full_URL |-> SITE_ROOT \o hrefs[k]]]

\* parse_conference_links_to_dataframe, for one os.listdir order of the folder
RECURSIVE ParseFiles(_, _)
ParseFiles(folder, order) ==
    IF order = << >> THEN << >>
    ELSE (IF EndsWith(Head(order), HTML_EXT) THEN RowsOfFile(Head(order), folder.files[Head(order)]) ELSE << >>)
         \o ParseFiles(folder, Tail(order))

parse_conference_links_to_dataframe(folder) ==
    { ParseFiles(folder, order) : order \in Orders(DOMAIN folder.files) }

\* Variant: no filtering
FilterNothing(df, specific) == df

\* Variant: the month is not compared
FilterYearOnly(df, specific) == SelectSeq(df, LAMBDA r : r.Year = Split(specific, "-")[1])

\* talks_df[(Year == year_filter) & (Month == month_filter)]
FilterSpecific(df, specific) ==
    LET year_filter == Split(specific, "-")[1]
        month_filter == Split(specific, "-")[2]
    IN  SelectSeq(df, LAMBDA r : r.Year = year_filter /\ r.Month = month_filter)

\* ------------------------------------------------------------ aggregation
get_base_talk_filename(filename) ==
    IF EndsWith(filename, LANG_EXT)
    THEN SubSeq(filename, 1, Len(filename) - Len(LANG_EXT)) \o HTML_EXT
    ELSE filename

\* The 'filename' column, from URL_Suffix
FilenameOf(x) ==
    LET parts == Split(x, "/")
    IN  FromEnd(parts, 3) \o <<"-">> \o FromEnd(parts, 2) \o <<"-">> \o Split(FromEnd(parts, 1), "?")[1]
        \o (IF Contains(x, LANG_ENG) THEN LANG_EXT ELSE HTML_EXT)

\* Steps 3b-4 of main: the path column, the counts and the filename of every row
JoinRow(row, path, folder) ==
    [Year |-> row.Year, Month |-> row.Month, URL_Suffix |-> row.URL_Suffix, Full_URL |-> row.Full_URL,
     talk_html_filepath |-> path,
     counts |-> IF path # None THEN count_scripture_references_from_file(path, folder) ELSE ZeroCounts,
     filename |-> FilenameOf(row.URL_Suffix)]

\* Variant: ascending order
SortsBeforeAscending(a, b) == StrLess(a.filename, b.filename)

\* sort_values(by=['filename'], ascending=[False]): a precedes b
SortsBefore(a, b) == StrLess(b.filename, a.filename)

\* df without its k-th row
Without(df, k) == SubSeq(df, 1, k - 1) \o SubSeq(df, k + 1, Len(df))

\* The results of the sort: every arrangement of the rows in which no row
\* comes after one it must precede (the sort is not stable, so rows with equal
\* keys may come out in any order)
RECURSIVE SortValues(_)
SortValues(df) ==
    IF df = << >> THEN { << >> }
    ELSE UNION { { << df[k] >> \o rest : rest \in SortValues(Without(df, k)) } :
                 k \in { c \in 1..Len(df) : \A e \in 1..Len(df) : ~SortsBefore(df[e], df[c]) } }

\* drop_duplicates(subset=['base_filename'], keep='first'); seen holds the
\* base filenames of the rows already passed
RECURSIVE DropFrom(_, _)
DropFrom(df, seen) ==
    IF df = << >> THEN << >>
    ELSE IF get_base_talk_filename(Head(df).filename) \in seen THEN DropFrom(Tail(df), seen)
    ELSE << Head(df) >> \o DropFrom(Tail(df), seen \cup { get_base_talk_filename(Head(df).filename) })

DropDuplicates(df) == DropFrom(df, { })

Deduplicate(df) == { DropDuplicates(sorted) : sorted \in SortValues(df) }

\* ------------------------------------------------------------------- main
VARIABLES
    linksDir,             \* CONFERENCE_LINKS_DIR: does it exist, and its files
    talksDir,             \* CONFERENCE_TALKS_DIR
    outFiles,             \* OUTPUT_PARQUET_DIR: output file name -> persisted table
    specific_conference,  \* argument of the current run of main (None: full range)
    pc,                   \* position of the run in main
    li,                   \* index of the next list page of Step 1
    talks_df,             \* the talk records after Step 2
    downloaded_talk_paths,
    processed_df,         \* the joined table just before deduplication
    last,                 \* the latest call of a fetch function and what it returned
    gets,                 \* HTTP GETs issued by the current run
    waited,               \* seconds slept since the latest GET of the run (-1: no GET yet)
    exit,                 \* how the current run of main ended
    written,              \* name of the output file written by the current run
    run,                  \* number of the current run
    failures,             \* failed fetches so far, over all runs
    failed,               \* has a fetch of the current run failed
    prev,                 \* arguments and outcome of the previous run
    snap,                 \* the folders as the current run found them
    arg,                  \* dashboard / counting helpers: the input of the call
    res,                  \* ... and what the call returned
    stage                 \* "idle" | "input" | "done"

mainVars == << linksDir, talksDir, outFiles, specific_conference, pc, li, talks_df,
               downloaded_talk_paths, processed_df, last, gets, waited, exit, written,
               run, failures, failed, prev, snap >>

helperVars == << arg, res, stage >>

\* The --start_year and --end_year of the modelled runs: the first year alone
start_year == YEAR_RANGE_START
end_year == YEAR_RANGE_START

\* The 'YYYY-MM' values of --specific_conference that the model tries
SpecificChoices ==
    { IntToStr(y) \o <<"-">> \o MONTHS_TO_SCRAPE[m] : y \in start_year..end_year, m \in 1..Len(MONTHS_TO_SCRAPE) }

\* Step 1: the list URLs a run asks for, in order
ConferenceUrls(specific) ==
    IF specific = None
    THEN [k \in 1..((end_year - start_year + 1) * Len(MONTHS_TO_SCRAPE)) |->
            BASE_URL \o IntToStr(start_year + ((k - 1) \div Len(MONTHS_TO_SCRAPE))) \o <<"/">>
                     \o MONTHS_TO_SCRAPE[((k - 1) % Len(MONTHS_TO_SCRAPE)) + 1] \o LANG_QUERY]
    ELSE << BASE_URL \o Split(specific, "-")[1] \o <<"/">> \o Split(specific, "-")[2] \o LANG_QUERY >>

\* The bodies the site may answer a list URL with
ListBodies(url) ==
    LET parts == Split(url, "/")
    IN  SiteListPages(FromEnd(parts, 2), Split(FromEnd(parts, 1), "?")[1])

NoCall == [fn |-> "none", url |-> None, path |-> None, downloaded |-> FALSE, net |-> FALSE, kind |-> "none"]

Call(fn, url, r) ==
    [fn |-> fn, url |-> url, path |-> r.path, downloaded |-> r.downloaded, net |-> r.net, kind |-> r.kind]

FailureKinds == {"request_error", "io_error"}

\* The bookkeeping of a fetch call: GETs, pacing, failures
Account(r) ==
    /\ r.kind \in FailureKinds => failures < MaxFailures
    /\ gets' = IF r.net THEN gets + 1 ELSE gets
    /\ waited' = IF r.net THEN 0 ELSE waited
    /\ failures' = IF r.kind \in FailureKinds THEN failures + 1 ELSE failures
    /\ failed' = (failed \/ r.kind \in FailureKinds)

Running == [how |-> "running", code |-> 0]

\* main returns (every `return` of main, and its end): the process ends with status 0
Returned(how) == [how |-> how, code |-> 0]

\* an exception leaves main: traceback, status 1
Raised == [how |-> "exception", code |-> 1]

AfterLists(k) == IF k > Len(ConferenceUrls(specific_conference)) THEN "parse" ELSE "lists"

AfterTalks(p) == IF Len(p) = Len(talks_df) THEN "aggregate" ELSE "talks"

\* Step 1, one iteration: save_conference_list_html, then the sleep decision
FetchConferenceList ==
    /\ pc = "lists"
    /\ LET conference_url == ConferenceUrls(specific_conference)[li]
       IN  \E r \in save_conference_list_html(conference_url, linksDir, ListBodies(conference_url)) :
            /\ linksDir' = r.folder
            /\ last' = Call("list", conference_url, r)
            /\ Account(r)
            /\ li' = li + 1
            /\ IF r.raised
               THEN pc' = "done" /\ exit' = Raised
               ELSE /\ pc' = IF r.downloaded THEN "sleep_list" ELSE AfterLists(li + 1)
                    /\ exit' = exit
    /\ UNCHANGED << talksDir, outFiles, specific_conference, talks_df, downloaded_talk_paths,
                    processed_df, written, run, prev, snap, helperVars >>

\* time.sleep(REQUEST_DELAY_SECONDS)
Sleep ==
    /\ pc \in {"sleep_list", "sleep_talk"}
    /\ waited' = waited + REQUEST_DELAY_SECONDS
    /\ pc' = IF pc = "sleep_list" THEN AfterLists(li) ELSE AfterTalks(downloaded_talk_paths)
    /\ UNCHANGED << linksDir, talksDir, outFiles, specific_conference, li, talks_df,
                    downloaded_talk_paths, processed_df, last, gets, exit, written, run, failures,
                    failed, prev, snap, helperVars >>

\* Step 2: parse the cached list pages, filter for the override
ParseLists ==
    /\ pc = "parse"
    /\ IF ~linksDir.exists
       THEN /\ exit' = Returned("no_links_dir")
            /\ pc' = "done"
            /\ talks_df' = talks_df
       ELSE \E df \in parse_conference_links_to_dataframe(linksDir) :
              IF df = << >>
              THEN exit' = Returned("no_talks") /\ pc' = "done" /\ talks_df' = df
              ELSE LET filtered == IF specific_conference # None THEN FilterSpecific(df, specific_conference) ELSE df
                   IN  /\ talks_df' = filtered
                       /\ IF filtered = << >>
                          THEN exit' = Returned("no_talks_for_conference") /\ pc' = "done"
                          ELSE exit' = exit /\ pc' = "talks"
    /\ UNCHANGED << linksDir, talksDir, outFiles, specific_conference, li, downloaded_talk_paths,
                    processed_df, last, gets, waited, written, run, failures, failed, prev, snap, helperVars >>

\* Step 3, one iteration: save_talk_html, then the sleep decision
FetchTalk ==
    /\ pc = "talks"
    /\ LET row == talks_df[Len(downloaded_talk_paths) + 1]
           talk_url == IF StartsWith(row.Full_URL, HTTP) THEN row.Full_URL ELSE SITE_ROOT \o row.Full_URL
       IN  \E r \in save_talk_html(talk_url, talksDir, SiteTalkPages(talk_url)) :
            /\ talksDir' = r.folder
            /\ last' = Call("talk", talk_url, r)
            /\ Account(r)
            /\ downloaded_talk_paths' = Append(downloaded_talk_paths, r.path)
            /\ IF r.raised
               THEN pc' = "done" /\ exit' = Raised
               ELSE /\ pc' = IF r.downloaded THEN "sleep_talk" ELSE AfterTalks(downloaded_talk_paths')
                    /\ exit' = exit
    /\ UNCHANGED << linksDir, outFiles, specific_conference, li, talks_df, processed_df,
                    written, run, prev, snap, helperVars >>

\* datetime.now().strftime("%Y-%m") at the time of the write
NowStrings == { IntToStr(end_year) \o <<"-">> \o <<"1","1">> }

OutputFilename(specific, current_date_str) ==
    OUT_PREFIX \o (IF specific # None THEN specific ELSE current_date_str) \o OUT_EXT

\* Steps 4 and 5: count, join, deduplicate, write
Aggregate ==
    /\ pc = "aggregate"
    /\ processed_df' = [k \in 1..Len(talks_df) |-> JoinRow(talks_df[k], downloaded_talk_paths[k], talksDir)]
    /\ \E table \in Deduplicate(processed_df'), current_date_str \in NowStrings :
         IF table # << >>
         THEN /\ written' = OutputFilename(specific_conference, current_date_str)
              /\ outFiles' = (written' :> table) @@ outFiles
         ELSE UNCHANGED << written, outFiles >>
    /\ exit' = Returned("complete")
    /\ pc' = "done"
    /\ UNCHANGED << linksDir, talksDir, specific_conference, li, talks_df, downloaded_talk_paths,
                    last, gets, waited, run, failures, failed, prev, snap, helperVars >>

\* The run reached its end and none of its fetches failed
CleanRun == exit.how = "complete" /\ ~failed

StartOfRun(specific) ==
    /\ specific_conference' = specific
    /\ pc' = "lists"
    /\ li' = 1
    /\ talks_df' = << >>
    /\ downloaded_talk_paths' = << >>
    /\ processed_df' = << >>
    /\ last' = NoCall
    /\ gets' = 0
    /\ waited' = -1
    /\ exit' = Running
    /\ written' = None
    /\ failed' = FALSE

\* The command is run again over the directories the previous run left
NewRun ==
    /\ pc = "done"
    /\ run < MaxRuns
    /\ \E specific \in {None} \cup SpecificChoices : StartOfRun(specific)
    /\ run' = run + 1
    /\ prev' = [specific_conference |-> specific_conference, clean |-> CleanRun]
    /\ snap' = [links |-> linksDir, talks |-> talksDir, out |-> outFiles]
    /\ UNCHANGED << linksDir, talksDir, outFiles, failures, helperVars >>

Init ==
    /\ linksDir = EmptyDir
    /\ talksDir = EmptyDir
    /\ outFiles = << >>
    /\ specific_conference \in {None} \cup SpecificChoices
    /\ pc = "lists"
    /\ li = 1
    /\ talks_df = << >>
    /\ downloaded_talk_paths = << >>
    /\ processed_df = << >>
    /\ last = NoCall
    /\ gets = 0
    /\ waited = -1
    /\ exit = Running
    /\ written = None
    /\ run = 1
    /\ failures = 0
    /\ failed = FALSE
    /\ prev = [specific_conference |-> None, clean |-> FALSE]
    /\ snap = [links |-> EmptyDir, talks |-> EmptyDir, out |-> << >>]
    /\ arg = None
    /\ res = None
    /\ stage = "idle"

Next ==
    \/ FetchConferenceList
    \/ Sleep
    \/ ParseLists
    \/ FetchTalk
    \/ Aggregate
    \/ NewRun

vars == << mainVars, helperVars >>

Spec == Init /\ [][Next]_vars

\* ================================================= helper specifications
\* main is not running while a helper is exercised on its own
MainIdle ==
    /\ linksDir = EmptyDir /\ talksDir = EmptyDir /\ outFiles = << >>
    /\ specific_conference = None /\ pc = "idle" /\ li = 1
    /\ talks_df = << >> /\ downloaded_talk_paths = << >> /\ processed_df = << >>
    /\ last = NoCall /\ gets = 0 /\ waited = -1 /\ exit = Running /\ written = None
    /\ run = 1 /\ failures = 0 /\ failed = FALSE
    /\ prev = [specific_conference |-> None, clean |-> FALSE]
    /\ snap = [links |-> EmptyDir, talks |-> EmptyDir, out |-> << >>]

\* ---------------------------------- count_scripture_references_from_file
\* The pieces the talk texts are put together from
TextChunks ==
    { <<"s","c","r","i","p","t","u","r","e","s","/","b","o","f","m","/">>,
      <<"s","c","r","i","p","t","u","r","e","s","/","d","c","-","t","e","s","t","a","m","e","n","t","/","d","c","/">>,
      <<"s","c","r","i","p","t","u","r","e","s","/","p","g","p","/">>,
      <<"s","c","r","i","p","t","u","r","e","s","/","n","t","/">>,
      <<"s","c","r","i","p","t","u","r","e","s","/","o","t","/">>,
      <<"S","c","r","i","p","t","u","r","e","s","/","B","o","f","M","/">>,
      <<"S","C","R","I","P","T","U","R","E","S","/","O","T","/">>,
      <<"s","c","r","i","p","t","u","r","e","s","/">>,
      <<"x">> }

RECURSIVE Concat(_)
Concat(pieces) == IF pieces = << >> THEN << >> ELSE Head(pieces) \o Concat(Tail(pieces))

TalkTexts == { Concat(pieces) : pieces \in SeqsUpTo(TextChunks, MaxChunks) }

TALK_FILE == <<"t",".","h","t","m","l">>
ABSENT_FILE == <<"u",".","h","t","m","l">>

InitCount ==
    /\ MainIdle
    /\ \E text \in TalkTexts, filepath \in {None, TALK_FILE, ABSENT_FILE} :
         arg = [filepath |-> filepath, folder |-> WriteFile(EmptyDir, TALK_FILE, text)]
    /\ res = None
    /\ stage = "input"

CountReferences ==
    /\ stage = "input"
    /\ res' = count_scripture_references_from_file(arg.filepath, arg.folder)
    /\ stage' = "done"
    /\ UNCHANGED << mainVars, arg >>

NextCount == CountReferences

SpecCount == InitCount /\ [][NextCount]_vars

\* The markers as the claim lists them
C5_Markers ==
    [bom |-> <<"s","c","r","i","p","t","u","r","e","s","/","b","o","f","m","/">>,
     dc  |-> <<"s","c","r","i","p","t","u","r","e","s","/","d","c","-","t","e","s","t","a","m","e","n","t","/","d","c","/">>,
     pgp |-> <<"s","c","r","i","p","t","u","r","e","s","/","p","g","p","/">>,
     nt  |-> <<"s","c","r","i","p","t","u","r","e","s","/","n","t","/">>,
     ot  |-> <<"s","c","r","i","p","t","u","r","e","s","/","o","t","/">>]

\* The places of a text where a marker stands, letter case aside. No marker
\* can overlap another occurrence of itself, so their number is the number of
\* non-overlapping occurrences.
Occurrences(text, marker) ==
    { k \in 1..(Len(text) - Len(marker) + 1) : \A e \in 1..Len(marker) : LowerChar(text[k + e - 1]) = LowerChar(marker[e]) }

\* C5: the result has exactly the keys bom, dc, pgp, nt, ot; each value is the
\* number of case-insensitive occurrences of that book's marker in the file's
\* text, whatever the other markers do; a missing file or an empty path gives
\* all zeros.
C5_Counts ==
    stage = "done" =>
        /\ DOMAIN res = {"bom", "dc", "pgp", "nt", "ot"}
        /\ IF arg.filepath = None \/ arg.filepath \notin DOMAIN arg.folder.files
           THEN \A key \in DOMAIN res : res[key] = 0
           ELSE \A key \in DOMAIN res :
                  res[key] = Cardinality(Occurrences(arg.folder.files[arg.filepath], C5_Markers[key]))

\* Three Book of Mormon markers, one of them in capitals, and nothing else
C5_Witness ==
    /\ stage = "done" /\ arg.filepath = TALK_FILE
    /\ res = [bom |-> 3, dc |-> 0, pgp |-> 0, nt |-> 0, ot |-> 0]
    /\ \E k \in 1..Len(arg.folder.files[TALK_FILE]) : arg.folder.files[TALK_FILE][k] = "B"

\* ------------------------------------------- remove_speaker_from_title
\* A cell of the table: null (None / NaN) or a text
Null == [null |-> TRUE, text |-> << >>]
Text(t) == [null |-> FALSE, text |-> t]

\* [a-zA-Z0-9]
IsAlnum(c) == Ord(c) \in (48..57) \cup (65..90) \cup (97..122)

\* re.sub(r'[^a-zA-Z0-9]', '', x).lower()
Alnum(x) == Lower(SelectSeq(x, IsAlnum))

IsSpace(c) == c = " "

\* str.strip()
RECURSIVE LStrip(_)
LStrip(x) == IF x # << >> /\ IsSpace(Head(x)) THEN LStrip(Tail(x)) ELSE x

RECURSIVE RStrip(_)
RStrip(x) == IF x # << >> /\ IsSpace(x[Len(x)]) THEN RStrip(SubSeq(x, 1, Len(x) - 1)) ELSE x

Strip(x) == RStrip(LStrip(x))

\* x[:-n] for n >= 0: -0 is 0, so x[:-0] is x[:0], the empty text
SliceOffEnd(x, n) == IF n = 0 THEN << >> ELSE SubSeq(x, 1, Len(x) - n)

remove_speaker_from_title(title, speaker) ==
    IF title.null \/ speaker.null THEN title
    ELSE LET t == Alnum(title.text)
             sp == Alnum(speaker.text)
         IN  IF EndsWith(t, sp) THEN Text(Strip(SliceOffEnd(title.text, Len(speaker.text)))) ELSE title

TitleChars == {"a", "B", " ", "."}

InitTitle ==
    /\ MainIdle
    /\ \E title \in {Null} \cup { Text(t) : t \in SeqsUpTo(TitleChars, MaxTitleLen) },
          speaker \in {Null} \cup { Text(t) : t \in SeqsUpTo(TitleChars, MaxSpeakerLen) } :
         arg = [title |-> title, speaker |-> speaker]
    /\ res = None
    /\ stage = "input"

RemoveSpeaker ==
    /\ stage = "input"
    /\ res' = remove_speaker_from_title(arg.title, arg.speaker)
    /\ stage' = "done"
    /\ UNCHANGED << mainVars, arg >>

NextTitle == RemoveSpeaker

SpecTitle == InitTitle /\ [][NextTitle]_vars

\* C7: for a non-null title and speaker, if the title reduced to lower-cased
\* alphanumerics ends with the speaker so reduced, the result is the title
\* without that trailing occurrence (the reduction of the result followed by
\* that of the speaker is the reduction of the title), trimmed; otherwise the
\* result is the title. Also when the two differ in case, spacing or
\* punctuation, and when the speaker is empty.
C7_TitleCleanup ==
    (stage = "done" /\ ~arg.title.null /\ ~arg.speaker.null) =>
        IF EndsWith(Alnum(arg.title.text), Alnum(arg.speaker.text))
        THEN /\ ~res.null
             /\ Alnum(res.text) \o Alnum(arg.speaker.text) = Alnum(arg.title.text)
             /\ res.text = Strip(res.text)
             /\ StartsWith(arg.title.text, LStrip(res.text)) \/ StartsWith(LStrip(arg.title.text), res.text)
        ELSE res = arg.title

\* ------------------------------------- Visualizations page: smoothing
\* str.zfill(width), for unsigned texts
RECURSIVE ZFill(_, _)
ZFill(x, width) == IF Len(x) >= width THEN x ELSE ZFill(<<"0">> \o x, width)

\* plot_df['Conference']
ConferenceOf(row) == row.Year \o <<"-">> \o ZFill(row.Month, 2)

\* The group keys in the order groupby leaves them: ascending, as texts
RECURSIVE SortedKeys(_)
SortedKeys(keys) ==
    IF keys = { } THEN << >>
    ELSE LET first == CHOOSE x \in keys : \A y \in keys : ~StrLess(y, x)
         IN  << first >> \o SortedKeys(keys \ { first })

\* .sum() of one column over the rows of a group
RECURSIVE SumWhere(_, _)
SumWhere(rows, key) ==
    IF rows = << >> THEN 0
    ELSE (IF ConferenceOf(Head(rows)) = key THEN Head(rows).count ELSE 0) + SumWhere(Tail(rows), key)

\* plot_df.groupby(["Conference"])[cols].sum().reset_index(), for one column
GroupSums(rows) ==
    LET keys == SortedKeys({ ConferenceOf(rows[k]) : k \in 1..Len(rows) })
    IN  [k \in 1..Len(keys) |-> [Conference |-> keys[k], value |-> SumWhere(rows, keys[k])]]

RECURSIVE SumRange(_, _, _)
SumRange(col, lo, hi) == IF lo > hi THEN 0 ELSE col[hi].value + SumRange(col, lo, hi - 1)

\* A mean kept exact, as numerator and denominator; den = 0 stands for NaN
Mean(total, n) == [num |-> total, den |-> n]

\* Variant: rolling(window) with its default min_periods = window
RollingFullWindows(col, window) ==
    [k \in 1..Len(col) |->
        [Conference |-> col[k].Conference,
         value |-> IF k < window THEN Mean(0, 0) ELSE Mean(SumRange(col, k - window + 1, k), window)]]

\* col.rolling(window, min_periods=1).mean()
Rolling(col, window) ==
    [k \in 1..Len(col) |->
        LET lo == IF k - window + 1 < 1 THEN 1 ELSE k - window + 1
        IN  [Conference |-> col[k].Conference, value |-> Mean(SumRange(col, lo, k), k - lo + 1)]]

\* "2-conference rolling average", "3-...", "6-..."
Windows == {2, 3, 6}

TableRows ==
    [Year : { <<"1","9","7","1">>, <<"1","9","7","2">> }, Month : { <<"0","4">>, <<"1","0">> }, count : {10, 20, 30}]

InitRoll ==
    /\ MainIdle
    /\ \E rows \in SeqsUpTo(TableRows, MaxRows), window \in Windows : arg = [rows |-> rows, window |-> window]
    /\ res = None
    /\ stage = "input"

Smooth ==
    /\ stage = "input"
    /\ res' = Rolling(GroupSums(arg.rows), arg.window)
    /\ stage' = "done"
    /\ UNCHANGED << mainVars, arg >>

NextRoll == Smooth

SpecRoll == InitRoll /\ [][NextRoll]_vars

\* The number a text of digits stands for
RECURSIVE ParseInt(_)
ParseInt(x) == IF x = << >> THEN 0 ELSE 10 * ParseInt(SubSeq(x, 1, Len(x) - 1)) + (Ord(x[Len(x)]) - 48)

\* A conference period as a number that grows with time: year, then month
PeriodOfRow(row) == 100 * ParseInt(row.Year) + ParseInt(row.Month)
PeriodOfKey(key) == 100 * ParseInt(SubSeq(key, 1, 4)) + ParseInt(SubSeq(key, 6, 7))

RECURSIVE PeriodSum(_, _)
PeriodSum(rows, period) ==
    IF rows = << >> THEN 0
    ELSE (IF PeriodOfRow(Head(rows)) = period THEN Head(rows).count ELSE 0) + PeriodSum(Tail(rows), period)

\* C8: the per-period sums stand in chronological order, one per period, and
\* the value at position k is the mean of the sums at max(1, k-w+1)..k, so the
\* first w-1 values are partial averages and none is null.
C8_Rolling ==
    stage = "done" =>
        /\ { PeriodOfKey(res[k].Conference) : k \in 1..Len(res) } = { PeriodOfRow(arg.rows[k]) : k \in 1..Len(arg.rows) }
        /\ \A a, b \in 1..Len(res) : a < b => PeriodOfKey(res[a].Conference) < PeriodOfKey(res[b].Conference)
        /\ \A k \in 1..Len(res) :
             LET lo == IF k - arg.window + 1 < 1 THEN 1 ELSE k - arg.window + 1
                 total[e \in (lo - 1)..k] ==
                     IF e < lo THEN 0 ELSE total[e - 1] + PeriodSum(arg.rows, PeriodOfKey(res[e].Conference))
             IN  /\ res[k].value.den = k - lo + 1
                 /\ res[k].value.den > 0
                 /\ res[k].value.num = total[k]

\* Window 2 over the sums 10, 20, 30, the rows given out of order: 10, 15, 25
C8_Witness ==
    /\ stage = "done" /\ arg.window = 2 /\ Len(res) = 3
    /\ PeriodOfRow(arg.rows[1]) > PeriodOfRow(arg.rows[2])
    /\ PeriodSum(arg.rows, PeriodOfKey(res[1].Conference)) = 10
    /\ PeriodSum(arg.rows, PeriodOfKey(res[2].Conference)) = 20
    /\ PeriodSum(arg.rows, PeriodOfKey(res[3].Conference)) = 30
    /\ res[1].value.num = 10 * res[1].value.den
    /\ res[2].value.num = 15 * res[2].value.den
    /\ res[3].value.num = 25 * res[3].value.den

\* ------------------------------------- load_data: per-100-verse columns
OT  == <<"o","t">>
NT  == <<"n","t">>
BOM == <<"b","o","m">>
DC  == <<"d","c">>
PGP == <<"p","g","p">>
PER100 == <<"_","p","e","r","1","0","0">>

VERSE_COUNTS == (OT :> 23145) @@ (NT :> 7957) @@ (BOM :> 6604) @@ (DC :> 3654) @@ (PGP :> 635)

\* Variant: the ratio without the scaling to 100 verses
PerVerse(count, verses) == Mean(count, verses)

\* df[col] / verses * 100, kept exact
Per100(count, verses) == Mean(count * 100, verses)

RECURSIVE AddPer100(_, _, _)
AddPer100(df, out, todo) ==
    IF todo = { } THEN out
    ELSE LET col == CHOOSE c \in todo : TRUE
         IN  AddPer100(df,
                       IF col \in DOMAIN df
                       THEN ((col \o PER100) :> Per100(df[col], VERSE_COUNTS[col])) @@ out
                       ELSE out,
                       todo \ { col })

\* The loop of load_data over VERSE_COUNTS.items(), on a one-row table
load_data(df) == AddPer100(df, df, DOMAIN VERSE_COUNTS)

RawCounts == {0, 231, 635}

InitVerse ==
    /\ MainIdle
    /\ \E cols \in SUBSET (DOMAIN VERSE_COUNTS) : \E df \in [cols -> RawCounts] : arg = df
    /\ res = None
    /\ stage = "input"

LoadData ==
    /\ stage = "input"
    /\ res' = load_data(arg)
    /\ stage' = "done"
    /\ UNCHANGED << mainVars, arg >>

NextVerse == LoadData

SpecVerse == InitVerse /\ [][NextVerse]_vars

\* The verse table as the documentation states it
BookVerses(col) ==
    CASE col = OT -> 23145 [] col = NT -> 7957 [] col = BOM -> 6604 [] col = DC -> 3654 [] col = PGP -> 635

Books == {OT, NT, BOM, DC, PGP}

\* value = count / verses * 100, stated without division
IsPer100(value, count, verses) == value.den > 0 /\ value.num * verses = count * 100 * value.den

\* |value - 1.0| <= 1e-6
IsOne(value) ==
    LET d == IF value.num > value.den THEN value.num - value.den ELSE value.den - value.num
    IN  value.den > 0 /\ d * 1000000 <= value.den

Per100Columns ==
    /\ DOMAIN res = DOMAIN arg \cup { col \o PER100 : col \in DOMAIN arg }
    /\ \A col \in DOMAIN arg : res[col] = arg[col]
    /\ \A col \in Books :
         IF col \in DOMAIN arg
         THEN IsPer100(res[col \o PER100], arg[col], BookVerses(col))
         ELSE (col \o PER100) \notin DOMAIN res

\* C9 as stated: every book column present gets count / verses * 100, and an
\* ot count of 231 gives 1.0 within floating tolerance.
C9_OtCountGivesOne ==
    stage = "done" =>
        /\ Per100Columns
        /\ (OT \in DOMAIN arg /\ arg[OT] = 231) => IsOne(res[OT \o PER100])

\* C9: every book column present gets count / verses * 100 from the fixed
\* table, absent books get no column, and an ot count of 231 gives
\* 23100 / 23145, which is below 1 by 45 / 23145 (about 0.998).
C9_Per100 ==
    stage = "done" =>
        /\ Per100Columns
        /\ (OT \in DOMAIN arg /\ arg[OT] = 231) =>
              /\ res[OT \o PER100].num * 23145 = 23100 * res[OT \o PER100].den
              /\ ~IsOne(res[OT \o PER100])

C9_Witness ==
    /\ stage = "done"
    /\ OT \in DOMAIN arg /\ arg[OT] = 231
    /\ PGP \in DOMAIN arg /\ arg[PGP] = 635
    /\ NT \notin DOMAIN arg
    /\ res[OT \o PER100] = Mean(23100, 23145)
    /\ res[PGP \o PER100] = Mean(63500, 635)

\* ------------------------------ save_talk_html, called on a cache of its own
\* The talk URLs main can hand to save_talk_html, plain and ?lang=eng
CacheUrls ==
    { SITE_ROOT \o h : h \in UNION { TalkHrefs(IntToStr(y), MONTHS_TO_SCRAPE[m]) :
                                       y \in start_year..end_year, m \in 1..Len(MONTHS_TO_SCRAPE) } }

CacheTalks == { TalkBaseFilename(url) : url \in CacheUrls }

\* What earlier runs may have left in a cache file
OLD_PAGE == <<"o","l","d">>

\* The talk caches in which no talk has both its plain and its _lang=eng file
StartCaches ==
    LET names == UNION { { t \o HTML_EXT, t \o LANG_EXT } : t \in CacheTalks }
    IN  { [exists |-> TRUE, files |-> f] :
            f \in { g \in UNION { [present -> {OLD_PAGE, TRUNCATED}] : present \in SUBSET names } :
                      \A t \in CacheTalks : ~((t \o HTML_EXT) \in DOMAIN g /\ (t \o LANG_EXT) \in DOMAIN g) } }
        \cup { EmptyDir }

\* Per talk: the GETs answered with a page, the GETs that left a file, and the
\* calls that returned downloaded = True
NoHistory ==
    [calls |-> 0, responses |-> [t \in CacheTalks |-> 0], stored |-> [t \in CacheTalks |-> 0],
     downloads |-> [t \in CacheTalks |-> 0]]

\* The page arrived exactly when the failure, if any, is one of the write
Responded(r) == r.net /\ r.kind # "request_error"

InitCache ==
    /\ linksDir = EmptyDir /\ outFiles = << >>
    /\ \E c \in StartCaches : talksDir = c /\ snap = [links |-> EmptyDir, talks |-> c, out |-> << >>]
    /\ specific_conference = None /\ pc = "idle" /\ li = 1
    /\ talks_df = << >> /\ downloaded_talk_paths = << >> /\ processed_df = << >>
    /\ last = NoCall /\ gets = 0 /\ waited = -1 /\ exit = Running /\ written = None
    /\ run = 1 /\ failures = 0 /\ failed = FALSE
    /\ prev = [specific_conference |-> None, clean |-> FALSE]
    /\ arg = None /\ res = NoHistory /\ stage = "cache"

SaveTalk ==
    /\ stage = "cache"
    /\ res.calls < MaxCalls
    /\ \E url \in CacheUrls : \E r \in save_talk_html(url, talksDir, SiteTalkPages(url)) :
         LET t == TalkBaseFilename(url)
         IN  /\ talksDir' = r.folder
             /\ last' = Call("talk", url, r)
             /\ gets' = IF r.net THEN gets + 1 ELSE gets
             /\ failed' = (failed \/ r.kind \in FailureKinds)
             /\ arg' = url
             /\ res' = [calls |-> res.calls + 1,
                        responses |-> [res.responses EXCEPT ![t] = @ + (IF Responded(r) THEN 1 ELSE 0)],
                        stored |-> [res.stored EXCEPT ![t] = @ + (IF r.folder.files # talksDir.files THEN 1 ELSE 0)],
                        downloads |-> [res.downloads EXCEPT ![t] = @ + (IF r.downloaded THEN 1 ELSE 0)]]
    /\ UNCHANGED << linksDir, outFiles, specific_conference, pc, li, talks_df, downloaded_talk_paths,
                    processed_df, waited, exit, written, run, failures, prev, snap, stage >>

NextCache == SaveTalk

SpecCache == InitCache /\ [][NextCache]_vars

\* ================================================================= claims
\* The periods and talks of the modelled site, written out as the claims name them
PeriodNames == { [year |-> IntToStr(y), month |-> MONTHS_TO_SCRAPE[m]] : y \in start_year..end_year, m \in 1..Len(MONTHS_TO_SCRAPE) }

\* The list URL of a period and the cache file named from its last two path segments
ListUrlOf(p) == BASE_URL \o p.year \o <<"/">> \o p.month \o LANG_QUERY
ListFileOf(p) == p.year \o <<"-">> \o p.month \o HTML_EXT

\* The two cache files of the talk a URL names
PlainFileOf(p, slug) == p.year \o <<"-">> \o p.month \o <<"-">> \o slug \o HTML_EXT
LangFileOf(p, slug) == p.year \o <<"-">> \o p.month \o <<"-">> \o slug \o LANG_EXT
TalkUrlsOf(p, slug) ==
    LET plain == SITE_ROOT \o <<"/","s","t","u","d","y","/","g","e","n","e","r","a","l","-","c","o","n","f","e","r","e","n","c","e","/">> \o p.year \o <<"/">> \o p.month \o <<"/">> \o slug
    IN  { plain, plain \o LANG_QUERY }

CachesUnchanged == linksDir' = linksDir /\ talksDir' = talksDir

\* A list fetch whose cache file is present: no GET, caches untouched, (path, False)
C1_ListHit ==
    \A p \in PeriodNames :
        (pc = "lists" /\ ConferenceUrls(specific_conference)[li] = ListUrlOf(p) /\ ListFileOf(p) \in DOMAIN linksDir.files)
        => /\ gets' = gets
           /\ CachesUnchanged
           /\ last'.path = ListFileOf(p) /\ last'.downloaded = FALSE /\ last'.net = FALSE

\* A talk fetch for which the plain or the _lang=eng file is present
C1_TalkHit ==
    \A p \in PeriodNames, slug \in Slugs :
        (/\ pc = "talks"
         /\ talks_df[Len(downloaded_talk_paths) + 1].Full_URL \in TalkUrlsOf(p, slug)
         /\ (PlainFileOf(p, slug) \in DOMAIN talksDir.files \/ LangFileOf(p, slug) \in DOMAIN talksDir.files))
        => /\ gets' = gets
           /\ CachesUnchanged
           /\ last'.path \in { PlainFileOf(p, slug), LangFileOf(p, slug) } \cap DOMAIN talksDir.files
           /\ last'.downloaded = FALSE /\ last'.net = FALSE

\* A run with the arguments of the run before it, which completed without a failed fetch
C1_Rerun == run > 1 /\ prev.clean /\ prev.specific_conference = specific_conference

\* C1: a fetch whose cache file is present (for a talk: the plain or the
\* _lang=eng file) makes no HTTP request, leaves the caches as they are and
\* returns (existing path, False); so a rerun after a fully successful run
\* makes no request at all and leaves the caches identical.
C1_FetchIdempotent ==
    [][ /\ C1_ListHit
        /\ C1_TalkHit
        /\ C1_Rerun' => (gets' = 0 /\ linksDir' = snap'.links /\ talksDir' = snap'.talks) ]_vars

\* A completed rerun whose last talk URL was the ?lang=eng one, answered from the plain file
C1_Witness ==
    /\ C1_Rerun /\ exit.how = "complete"
    /\ last.fn = "talk" /\ last.kind = "cached"
    /\ Contains(last.url, LANG_ENG) /\ ~EndsWith(last.path, LANG_EXT)

\* A step of one of the two fetch loops of main
FetchStep == pc \in {"lists", "talks"}

\* C2: in every run a delay of REQUEST_DELAY_SECONDS lies between any two
\* consecutive HTTP GETs, whether the earlier one succeeded or failed, and a
\* fetch answered from the cache is never followed by a delay.
C2_RequestPacing ==
    [][ /\ (FetchStep /\ last'.net) => waited # 0
        /\ (FetchStep /\ ~last'.net) => pc' \notin {"sleep_list", "sleep_talk"} ]_vars

\* C3: a failed GET or a failed write makes the fetch function return
\* (None, False) without raising, and main goes on with the next item: every
\* list page of the run is attempted before parsing, every talk of the run is
\* attempted before counting, and every talk is in the joined table.
C3_FailuresPerItem ==
    [][ /\ (FetchStep /\ last'.kind \in FailureKinds)
            => /\ last'.path = None /\ last'.downloaded = FALSE
               /\ exit' = Running
               /\ pc = "lists" => (li' = li + 1 /\ pc' = AfterLists(li + 1))
               /\ pc = "talks" => (downloaded_talk_paths' = Append(downloaded_talk_paths, None)
                                   /\ pc' = AfterTalks(downloaded_talk_paths'))
        /\ pc' = "parse" => li' = Len(ConferenceUrls(specific_conference')) + 1
        /\ pc' = "aggregate" => Len(downloaded_talk_paths') = Len(talks_df')
        /\ exit'.how = "complete" => Len(processed_df') = Len(talks_df') ]_vars

\* A completed run in which a talk fetch failed and a later talk was fetched and counted
C3_Witness ==
    /\ exit.how = "complete" /\ failed
    /\ \E k \in 1..(Len(downloaded_talk_paths) - 1) :
         /\ downloaded_talk_paths[k] = None
         /\ downloaded_talk_paths[k + 1] # None
         /\ processed_df[k + 1].counts # ZeroCounts

\* The table the current run persisted
Persisted == outFiles[written]

BaseOf(filename) ==
    IF EndsWith(filename, LANG_EXT) THEN SubSeq(filename, 1, Len(filename) - Len(LANG_EXT)) \o HTML_EXT ELSE filename

\* C4: in the persisted table no two rows share a base filename, every base
\* filename of the joined table is still there, and where the joined table
\* had both 'X.html' and 'X_lang=eng.html' the surviving row is the
\* language-tagged one.
C4_Deduplicated ==
    (pc = "done" /\ written # None) =>
        /\ \A a, b \in 1..Len(Persisted) : BaseOf(Persisted[a].filename) = BaseOf(Persisted[b].filename) => a = b
        /\ \A k \in 1..Len(processed_df) : \E a \in 1..Len(Persisted) : BaseOf(Persisted[a].filename) = BaseOf(processed_df[k].filename)
        /\ \A k, e \in 1..Len(processed_df) :
             (/\ ~EndsWith(processed_df[k].filename, LANG_EXT)
              /\ processed_df[e].filename = SubSeq(processed_df[k].filename, 1, Len(processed_df[k].filename) - Len(HTML_EXT)) \o LANG_EXT)
             => /\ \E a \in 1..Len(Persisted) : Persisted[a].filename = processed_df[e].filename
                /\ \A a \in 1..Len(Persisted) : Persisted[a].filename # processed_df[k].filename

\* A persisted table from which the plain row of a talk was dropped in favour
\* of its language-tagged row, another talk's row being kept beside it
C4_Witness ==
    /\ pc = "done" /\ written # None
    /\ Len(Persisted) = 2 /\ Len(processed_df) = 3
    /\ \E k, e \in 1..Len(processed_df) : processed_df[e].filename = BaseOf(processed_df[e].filename) /\ processed_df[k].filename # processed_df[e].filename /\ BaseOf(processed_df[k].filename) = processed_df[e].filename

\* The YYYY and the MM of an override 'YYYY-MM'
YYYY == SubSeq(specific_conference, 1, 4)
MM == SubSeq(specific_conference, 6, 7)
OwnListFile == YYYY \o <<"-">> \o MM \o HTML_EXT

TalksDiscovered == \E f \in DOMAIN linksDir.files : linksDir.files[f] # << >>
TalksOfOverride == OwnListFile \in DOMAIN linksDir.files /\ linksDir.files[OwnListFile] # << >>
NothingToProcess == ~TalksDiscovered \/ (specific_conference # None /\ ~TalksOfOverride)

NoTalkFetchedNoTableWritten ==
    /\ downloaded_talk_paths = << >> /\ talksDir = snap.talks
    /\ outFiles = snap.out /\ written = None

EarlyReturns == {"no_links_dir", "no_talks", "no_talks_for_conference"}

NoTalkHasBoth(folder) ==
    \A t \in CacheTalks : ~((t \o HTML_EXT) \in DOMAIN folder.files /\ (t \o LANG_EXT) \in DOMAIN folder.files)

\* Every file of the cache is still there, with the content it had
NeverRewritten ==
    \A f \in DOMAIN talksDir.files : f \in DOMAIN talksDir'.files /\ talksDir'.files[f] = talksDir.files[f]

\* C11 as stated: from a cache where no talk has both files, after any
\* sequence of save_talk_html calls no talk has both files, no cached file
\* is rewritten, and at most one GET per talk was answered with a page.
C11_OneFetchPerTalk ==
    [][ /\ NoTalkHasBoth(talksDir')
        /\ NeverRewritten
        /\ \A t \in CacheTalks : res'.responses[t] <= 1 ]_vars

\* C11, counting stored pages: from a cache where no talk has both files,
\* after any sequence of save_talk_html calls no talk has both files, no
\* cached file is rewritten, at most one call per talk returned downloaded =
\* True, at most one GET per talk left a file, and a talk cached at the start
\* is never requested; a page that could not be stored at all is requested
\* again by the next call.
C11_CacheInvariant ==
    [][ /\ NoTalkHasBoth(talksDir')
        /\ NeverRewritten
        /\ \A t \in CacheTalks :
             /\ res'.downloads[t] <= res'.stored[t] /\ res'.stored[t] <= 1
             /\ ((t \o HTML_EXT) \in DOMAIN snap.talks.files \/ (t \o LANG_EXT) \in DOMAIN snap.talks.files)
                  => res'.responses[t] = 0
             /\ (res'.responses[t] > res.responses[t] /\ talksDir'.files = talksDir.files)
                  => \A url \in CacheUrls : TalkBaseFilename(url) = t =>
                        \A r \in save_talk_html(url, talksDir', SiteTalkPages(url)) : r.net ]_vars

\* A talk whose page arrived twice, was stored once, and was then asked for
\* under its other URL and answered from the cache
C11_Witness ==
    /\ stage = "cache" /\ last.kind = "cached"
    /\ Contains(last.url, LANG_ENG) /\ ~EndsWith(last.path, LANG_EXT)
    /\ res.responses[TalkBaseFilename(last.url)] = 2
    /\ res.downloads[TalkBaseFilename(last.url)] = 1
    /\ talksDir.files[last.path] # OLD_PAGE
    /\ \E f \in DOMAIN talksDir.files : talksDir.files[f] = OLD_PAGE

\* os.path.basename of a path of the talk cache (paths are kept relative to it)
BaseName(path) == path

\* C12: in every persisted row with a talk_html_filepath, the filename column
\* is the base name of that path, and the five counts are those of the file
\* at that path, whatever the cache held at the start and whatever mix of
\* plain and ?lang=eng URLs the list pages name.
C12_RowConsistency ==
    (pc = "done" /\ written # None) =>
        \A a \in 1..Len(Persisted) :
            Persisted[a].talk_html_filepath # None =>
                /\ Persisted[a].filename = BaseName(Persisted[a].talk_html_filepath)
                /\ Persisted[a].counts = count_scripture_references_from_file(Persisted[a].talk_html_filepath, talksDir)

====
